---- MODULE Spec2Model ----
(***************************************************************************)
(* Model of the HTTP server of src/unnamed/part_000: the connection loop   *)
(* (handle_client), the request processing (process_request), the header   *)
(* helpers and the table of dynamic resources.                              *)
(*                                                                         *)
(* A byte is a one-character string; the byte 0 is written NUL.  A char    *)
(* array is a sequence of bytes, and the C string it holds is the part of  *)
(* it before the first NUL (CStr).                                         *)
(***************************************************************************)
EXTENDS Integers, Sequences, FiniteSets, TLC

VARIABLES
    pc,                 \* where the server is: "accept", "recv", "frame", "exit"
    menu,               \* the byte streams a peer may send on a connection
    stream,             \* the bytes the peer of this connection sends
    pos,                \* how many of them recv has delivered
    buffer,             \* buffer[0 .. total_bytes) of handle_client
    dynamic_resources,  \* the table of dynamic resources
    frames,             \* the frames passed to process_request on this connection
    responses,          \* the responses sent on this connection
    conn                \* "none", "open", "closed" (handle_client returned 0), "aborted" (-1)

vars == <<pc, menu, stream, pos, buffer, dynamic_resources, frames, responses, conn>>

---------------------------------------------------------------------------
(* Bounds and constants *)

\* Number of slots the model checks the store with (the program has 100).
MaxSlots == 2

BUFFER_SIZE == 8192

STATIC_RESP_COUNT == 3

DYNAMIC_RESOURCES_COUNT == MaxSlots

MAX_HEADERS == 40

MAX_HEADER_LENGTH == 256

---------------------------------------------------------------------------
(* Bytes and C strings *)

NUL == "<0>"

Bytes(s) == [i \in 1..Len(s) |-> SubSeq(s, i, i)]

SetMin(S) == CHOOSE m \in S : \A n \in S : m <= n

\* The C string held by the char array mem: the bytes before the first NUL.
CStr(mem) ==
    LET nuls == {i \in 1..Len(mem) : mem[i] = NUL}
    IN  IF nuls = {} THEN mem ELSE SubSeq(mem, 1, SetMin(nuls) - 1)

\* The char array mem from offset off on (a pointer mem + off).
From(mem, off) == SubSeq(mem, off + 1, Len(mem))

UpperCase == "ABCDEFGHIJKLMNOPQRSTUVWXYZ"

LowerCase == "abcdefghijklmnopqrstuvwxyz"

\* The lower-case letter of each upper-case letter.
LowerOf ==
    [b \in {SubSeq(UpperCase, i, i) : i \in 1..26} |->
        LET i == CHOOSE j \in 1..26 : SubSeq(UpperCase, j, j) = b
        IN  SubSeq(LowerCase, i, i)]

tolower(b) == IF b \in DOMAIN LowerOf THEN LowerOf[b] ELSE b

Lower(s) == [i \in 1..Len(s) |-> tolower(s[i])]

isspace(b) == b \in {" ", "\t", "\n", "\r", "\f"}

isdigit(b) == b \in {"0", "1", "2", "3", "4", "5", "6", "7", "8", "9"}

DigitOf == [b \in {"0", "1", "2", "3", "4", "5", "6", "7", "8", "9"} |->
               CHOOSE d \in 0..9 : SubSeq("0123456789", d + 1, d + 1) = b]

DigitVal(b) == DigitOf[b]

\* strstr on C strings: the offset of the first occurrence of needle in s, or
\* -1 (NULL).
strstr(s, needle) ==
    LET hits == {i \in 0..(Len(s) - Len(needle)) :
                    SubSeq(s, i + 1, i + Len(needle)) = needle}
    IN  IF hits = {} THEN -1 ELSE SetMin(hits)

strcasestr(s, needle) == strstr(Lower(s), Lower(needle))

strcasecmp(a, b) == IF Lower(a) = Lower(b) THEN 0 ELSE 1

\* strcmp that leaves the last byte of each string out of the comparison.
strcmp_ignores_last(a, b) ==
    IF SubSeq(a, 1, Len(a) - 1) = SubSeq(b, 1, Len(b) - 1) THEN 0 ELSE 1

strcmp(a, b) == IF a = b THEN 0 ELSE 1

\* strncmp that compares the first byte only.
strncmp_first_byte(a, b, n) ==
    IF SubSeq(a, 1, 1) = SubSeq(b, 1, 1) THEN 0 ELSE 1

strncmp(a, b, n) ==
    IF SubSeq(a, 1, IF Len(a) < n THEN Len(a) ELSE n)
         = SubSeq(b, 1, IF Len(b) < n THEN Len(b) ELSE n) THEN 0 ELSE 1

CRLF == Bytes("\r\n")

CRLFCRLF == Bytes("\r\n\r\n")

\* Offset of the first byte of s at or after off that is not white space
\* (Len(s) when there is none).
SkipSpace(s, off) ==
    LET stop == {i \in off..(Len(s) - 1) : ~isspace(s[i + 1])}
    IN  IF stop = {} THEN IF off > Len(s) THEN off ELSE Len(s) ELSE SetMin(stop)

\* Offset just after the run of bytes satisfying the test that starts at off.
DigitsEnd(s, off) ==
    LET stop == {i \in off..(Len(s) - 1) : ~isdigit(s[i + 1])}
    IN  IF stop = {} THEN IF off > Len(s) THEN off ELSE Len(s) ELSE SetMin(stop)

WordEnd(s, off, width) ==
    LET stop == {i \in off..(Len(s) - 1) : isspace(s[i + 1])}
        e    == IF stop = {} THEN Len(s) ELSE SetMin(stop)
    IN  IF e - off > width THEN off + width ELSE e

RECURSIVE DecimalOf(_)
DecimalOf(ds) ==
    IF ds = <<>> THEN 0
    ELSE 10 * DecimalOf(SubSeq(ds, 1, Len(ds) - 1)) + DigitVal(ds[Len(ds)])

\* sscanf(s, "%zd", &length): white space is skipped, then an optional sign
\* and at least one digit; <<1, value>> on success and <<0, 0>> otherwise.
sscanf_zd(s) ==
    LET p    == SkipSpace(s, 0)
        sign == p < Len(s) /\ s[p + 1] \in {"-", "+"}
        d    == IF sign THEN p + 1 ELSE p
        e    == DigitsEnd(s, d)
        v    == DecimalOf(SubSeq(s, d + 1, e))
    IN  IF e = d THEN <<0, 0>>
        ELSE <<1, IF sign /\ s[p + 1] = "-" THEN 0 - v ELSE v>>

\* sscanf(s, "%15s %255s %15s", method, path, version): the number of words
\* converted and the words.
sscanf_request_line(s) ==
    LET m0 == SkipSpace(s, 0)
        m1 == WordEnd(s, m0, 15)
        p0 == SkipSpace(s, m1)
        p1 == WordEnd(s, p0, 255)
        v0 == SkipSpace(s, p1)
        v1 == WordEnd(s, v0, 15)
        n  == IF m1 = m0 THEN 0 ELSE IF p1 = p0 THEN 1 ELSE IF v1 = v0 THEN 2 ELSE 3
    IN  [n       |-> n,
         method  |-> SubSeq(s, m0 + 1, m1),
         path    |-> SubSeq(s, p0 + 1, p1),
         version |-> SubSeq(s, v0 + 1, v1)]

---------------------------------------------------------------------------
(* Header helpers *)

ContentLengthName == Bytes("Content-Length:")

\* get_content_length that returns 0 when there is no Content-Length header.
get_content_length_default_zero(request) ==
    LET cl_header == strcasestr(request, ContentLengthName)
        scan      == sscanf_zd(From(request, cl_header + 15))
    IN  IF cl_header = -1 THEN 0
        ELSE IF scan[1] # 1 THEN -1
        ELSE scan[2]

\* get_content_length: the value after the first "Content-Length:" of the C
\* string request, or -1.
get_content_length(request) ==
    LET cl_header == strcasestr(request, ContentLengthName)
        scan      == sscanf_zd(From(request, cl_header + 15))
    IN  IF cl_header = -1 THEN -1
        ELSE IF scan[1] # 1 THEN -1
        ELSE scan[2]

RECURSIVE count_headers_loop(_, _, _, _)
count_headers_loop(request, ptr, end, count) ==
    IF ptr < end
    THEN LET nx == strstr(From(request, ptr), CRLF)
         IN  IF nx = -1 THEN count
             ELSE count_headers_loop(request, ptr + nx + 2, end, count + 1)
    ELSE count

\* count_headers without the subtraction of the blank line.
count_headers_no_adjust(request) ==
    LET end == strstr(request, CRLFCRLF)
    IN  IF end = -1 THEN 0
        ELSE count_headers_loop(request, 0, end, 0)

count_headers(request) ==
    LET end == strstr(request, CRLFCRLF)
    IN  IF end = -1 THEN 0
        ELSE count_headers_loop(request, 0, end, 0) - 1

RECURSIVE validate_headers_loop(_, _, _)
validate_headers_loop(request, line, header_end) ==
    IF line < header_end
    THEN LET nx == strstr(From(request, line), CRLF)
         IN  IF nx = -1 \/ nx > MAX_HEADER_LENGTH THEN FALSE
             ELSE validate_headers_loop(request, line + nx + 2, header_end)
    ELSE TRUE

validate_headers(request) ==
    LET header_start == strstr(request, CRLF)
        header_end   == strstr(request, CRLFCRLF)
    IN  IF header_start = -1 THEN FALSE
        ELSE IF header_end = -1 THEN FALSE
        ELSE validate_headers_loop(request, header_start + 2, header_end)

---------------------------------------------------------------------------
(* Resources *)

static_resources ==
    [i \in 0..(STATIC_RESP_COUNT - 1) |->
        IF i = 0 THEN [path |-> Bytes("/static/foo"), content |-> Bytes("Foo"), content_length |-> 3]
        ELSE IF i = 1 THEN [path |-> Bytes("/static/bar"), content |-> Bytes("Bar"), content_length |-> 3]
        ELSE [path |-> Bytes("/static/baz"), content |-> Bytes("Baz"), content_length |-> 3]]

\* A slot of dynamic_resources.  content is the part of the content array
\* that has been written since it was last zeroed; the rest of the array is 0.
DynamicResource(path, content, in_use, content_length) ==
    [path |-> path, content |-> content, in_use |-> in_use,
     content_length |-> content_length]

Slots == 0..(DYNAMIC_RESOURCES_COUNT - 1)

\* n bytes of the char array mem from offset off on; the array is 0 past the
\* part that is modelled.
MemRead(mem, off, n) ==
    [i \in 1..n |-> IF off + i <= Len(mem) THEN mem[off + i] ELSE NUL]

\* The content array left as it is: no memset.
memset_skipped(content) == content

\* memset(content, 0, BUFFER_SIZE)
memset_content(content) == <<>>

\* memcpy that copies one byte too few.
memcpy_short(content, body, n) ==
    SubSeq(body, 1, n - 1) \o SubSeq(content, n, Len(content))

\* memcpy(content, body, n)
memcpy(content, body, n) == body \o SubSeq(content, n + 1, Len(content))

---------------------------------------------------------------------------
(* Responses *)

\* snprintf of "%d" and "%zu": the decimal digits of n >= 0.
RECURSIVE DecimalString(_)
DecimalString(n) ==
    IF n < 10 THEN <<SubSeq("0123456789", n + 1, n + 1)>>
    ELSE DecimalString(n \div 10)
            \o <<SubSeq("0123456789", (n % 10) + 1, (n % 10) + 1)>>

\* The header send_response formats with snprintf.
response_header(status_code, status_text, content_length) ==
    Bytes("HTTP/1.1 ") \o DecimalString(status_code) \o Bytes(" ")
        \o Bytes(status_text) \o CRLF
        \o Bytes("Content-Length: ") \o DecimalString(content_length) \o CRLF
        \o Bytes("Connection: close") \o CRLF
        \o CRLF

\* send_response that sends the whole body text, whatever content_length says.
send_response_whole_body(status_code, status_text, body, content_length) ==
    [status         |-> status_code,
     status_text    |-> status_text,
     content_length |-> content_length,
     body           |-> body,
     supplied       |-> body]

\* send_response: the response put on the wire: the status line, the
\* announced Content-Length and the body bytes transmitted.  A NULL body is
\* written <<>>; supplied is the body the caller handed over.
send_response(status_code, status_text, body, content_length) ==
    [status         |-> status_code,
     status_text    |-> status_text,
     content_length |-> content_length,
     body           |-> IF body # <<>> /\ content_length > 0
                        THEN MemRead(body, 0, content_length) ELSE <<>>,
     supplied       |-> body]

\* The bytes the two send_all calls of send_response put on the socket for a
\* response: the header, then the body bytes.
Wire(resp) ==
    response_header(resp.status, resp.status_text, resp.content_length) \o resp.body

\* The scan with available_slot starting at slot 0 instead of -1.
RECURSIVE scan_slots_from_zero(_, _, _, _)
scan_slots_from_zero(table, path, i, available_slot) ==
    IF i >= DYNAMIC_RESOURCES_COUNT
    THEN [resource_index |-> -1,
          available_slot |-> IF available_slot = -1 THEN 0 ELSE available_slot]
    ELSE IF table[i].in_use
         THEN IF strcmp(table[i].path, path) = 0
              THEN [resource_index |-> i, available_slot |-> available_slot]
              ELSE scan_slots_from_zero(table, path, i + 1, available_slot)
         ELSE scan_slots_from_zero(table, path, i + 1,
                                   IF available_slot = -1 THEN i ELSE available_slot)

\* The scan that ends at the first free slot.
RECURSIVE scan_slots_stop_at_free(_, _, _, _)
scan_slots_stop_at_free(table, path, i, available_slot) ==
    IF i >= DYNAMIC_RESOURCES_COUNT
    THEN [resource_index |-> -1, available_slot |-> available_slot]
    ELSE IF table[i].in_use
         THEN IF strcmp(table[i].path, path) = 0
              THEN [resource_index |-> i, available_slot |-> available_slot]
              ELSE scan_slots_stop_at_free(table, path, i + 1, available_slot)
         ELSE [resource_index |-> -1, available_slot |-> i]

\* The scan that records the last free slot it sees, not the first.
RECURSIVE scan_slots_last_free(_, _, _, _)
scan_slots_last_free(table, path, i, available_slot) ==
    IF i >= DYNAMIC_RESOURCES_COUNT
    THEN [resource_index |-> -1, available_slot |-> available_slot]
    ELSE IF table[i].in_use
         THEN IF strcmp(table[i].path, path) = 0
              THEN [resource_index |-> i, available_slot |-> available_slot]
              ELSE scan_slots_last_free(table, path, i + 1, available_slot)
         ELSE scan_slots_last_free(table, path, i + 1, i)

\* The scan of the slots in process_request: the index of the slot in use
\* with this path and the first free slot seen before it, -1 for none.
RECURSIVE scan_slots(_, _, _, _)
scan_slots(table, path, i, available_slot) ==
    IF i >= DYNAMIC_RESOURCES_COUNT
    THEN [resource_index |-> -1, available_slot |-> available_slot]
    ELSE IF table[i].in_use
         THEN IF strcmp(table[i].path, path) = 0
              THEN [resource_index |-> i, available_slot |-> available_slot]
              ELSE scan_slots(table, path, i + 1, available_slot)
         ELSE scan_slots(table, path, i + 1,
                         IF available_slot = -1 THEN i ELSE available_slot)

Reply(resp, table) == [resp |-> resp, table |-> table]

\* PUT that takes a free slot, when the scan saw one, before it looks at
\* resource_index.
put_resource_create_first(mem, request, path, table, found) ==
    LET headers_end    == strstr(request, CRLFCRLF)
        content_length == get_content_length(request)
        body           == MemRead(mem, headers_end + 4, content_length)
        ri             == found.resource_index
        as             == found.available_slot
    IN  IF headers_end = -1
        THEN Reply(send_response(400, "Bad Request", Bytes("Missing headers"), 14), table)
        ELSE IF content_length < 0 \/ content_length >= BUFFER_SIZE
        THEN Reply(send_response(411, "Length Required", Bytes("Invalid Content-Length"), 20), table)
        ELSE IF as # -1
        THEN Reply(send_response(201, "Created", <<>>, 0),
                   [table EXCEPT ![as] =
                       DynamicResource(path,
                                       memcpy(memset_content(@.content), body, content_length),
                                       TRUE, content_length)])
        ELSE IF ri # -1
        THEN Reply(send_response(204, "No Content", <<>>, 0),
                   [table EXCEPT ![ri].content =
                                     memcpy(memset_content(@), body, content_length),
                                 ![ri].content_length = content_length])
        ELSE Reply(send_response(507, "Insufficient Storage", <<>>, 0), table)

\* PUT that takes the free slot before it checks the Content-Length.
put_resource_claims_slot_first(mem, request, path, table, found) ==
    LET headers_end    == strstr(request, CRLFCRLF)
        content_length == get_content_length(request)
        body           == MemRead(mem, headers_end + 4, content_length)
        ri             == found.resource_index
        as             == found.available_slot
        claimed        == IF ri = -1 /\ as # -1
                          THEN [table EXCEPT ![as].in_use = TRUE, ![as].path = path]
                          ELSE table
    IN  IF headers_end = -1
        THEN Reply(send_response(400, "Bad Request", Bytes("Missing headers"), 14), table)
        ELSE IF content_length < 0 \/ content_length >= BUFFER_SIZE
        THEN Reply(send_response(411, "Length Required", Bytes("Invalid Content-Length"), 20), claimed)
        ELSE IF ri # -1
        THEN Reply(send_response(204, "No Content", <<>>, 0),
                   [table EXCEPT ![ri].content =
                                     memcpy(memset_content(@), body, content_length),
                                 ![ri].content_length = content_length])
        ELSE IF as # -1
        THEN Reply(send_response(201, "Created", <<>>, 0),
                   [table EXCEPT ![as] =
                       DynamicResource(path,
                                       memcpy(memset_content(@.content), body, content_length),
                                       TRUE, content_length)])
        ELSE Reply(send_response(507, "Insufficient Storage", <<>>, 0), table)

put_resource(mem, request, path, table, found) ==
    LET headers_end    == strstr(request, CRLFCRLF)
        body_off       == headers_end + 4
        content_length == get_content_length(request)
        body           == MemRead(mem, body_off, content_length)
        ri             == found.resource_index
        as             == found.available_slot
    IN  IF headers_end = -1
        THEN Reply(send_response(400, "Bad Request", Bytes("Missing headers"), 14), table)
        ELSE IF content_length < 0 \/ content_length >= BUFFER_SIZE
        THEN Reply(send_response(411, "Length Required", Bytes("Invalid Content-Length"), 20), table)
        ELSE IF ri # -1
        THEN Reply(send_response(204, "No Content", <<>>, 0),
                   [table EXCEPT ![ri].content =
                                     memcpy(memset_content(@), body, content_length),
                                 ![ri].content_length = content_length])
        ELSE IF as # -1
        THEN Reply(send_response(201, "Created", <<>>, 0),
                   [table EXCEPT ![as] =
                       DynamicResource(path,
                                       memcpy(memset_content(@.content), body, content_length),
                                       TRUE, content_length)])
        ELSE Reply(send_response(507, "Insufficient Storage", <<>>, 0), table)

get_resource(table, found) ==
    LET ri == found.resource_index
    IN  IF ri # -1
        THEN Reply(send_response(200, "OK", table[ri].content, table[ri].content_length), table)
        ELSE Reply(send_response(404, "Not Found", <<>>, 0), table)

\* DELETE that zeroes the content but leaves the slot in use.
delete_resource_keeps_slot(table, found) ==
    LET ri == found.resource_index
    IN  IF ri # -1
        THEN Reply(send_response(204, "No Content", <<>>, 0),
                   [table EXCEPT ![ri].content = memset_content(@),
                                 ![ri].content_length = 0])
        ELSE Reply(send_response(404, "Not Found", <<>>, 0), table)

\* DELETE that frees the slot but leaves its content and content_length.
delete_resource_keeps_content(table, found) ==
    LET ri == found.resource_index
    IN  IF ri # -1
        THEN Reply(send_response(204, "No Content", <<>>, 0),
                   [table EXCEPT ![ri].in_use = FALSE])
        ELSE Reply(send_response(404, "Not Found", <<>>, 0), table)

delete_resource(table, found) ==
    LET ri == found.resource_index
    IN  IF ri # -1
        THEN Reply(send_response(204, "No Content", <<>>, 0),
                   [table EXCEPT ![ri].in_use = FALSE,
                                 ![ri].content = memset_content(@),
                                 ![ri].content_length = 0])
        ELSE Reply(send_response(404, "Not Found", <<>>, 0), table)

\* The static branch with the lookup starting at entry 1.
static_resource_from_one(method, path, table) ==
    LET hit == {i \in 1..(STATIC_RESP_COUNT - 1) : strcmp(path, static_resources[i].path) = 0}
    IN  IF strcasecmp(method, Bytes("GET")) # 0
        THEN Reply(send_response(405, "Method Not Allowed", <<>>, 0), table)
        ELSE IF hit # {}
        THEN LET i == SetMin(hit)
             IN  Reply(send_response(200, "OK", static_resources[i].content,
                                     static_resources[i].content_length), table)
        ELSE Reply(send_response(404, "Not Found", <<>>, 0), table)

\* The static branch with the lookup before the test of the method.
static_resource_lookup_first(method, path, table) ==
    LET hit == {i \in 0..(STATIC_RESP_COUNT - 1) : strcmp(path, static_resources[i].path) = 0}
    IN  IF hit # {}
        THEN LET i == SetMin(hit)
             IN  Reply(send_response(200, "OK", static_resources[i].content,
                                     static_resources[i].content_length), table)
        ELSE IF strcasecmp(method, Bytes("GET")) # 0
        THEN Reply(send_response(405, "Method Not Allowed", <<>>, 0), table)
        ELSE Reply(send_response(404, "Not Found", <<>>, 0), table)

static_resource(method, path, table) ==
    LET hit == {i \in 0..(STATIC_RESP_COUNT - 1) : strcmp(path, static_resources[i].path) = 0}
    IN  IF strcasecmp(method, Bytes("GET")) # 0
        THEN Reply(send_response(405, "Method Not Allowed", <<>>, 0), table)
        ELSE IF hit # {}
        THEN LET i == SetMin(hit)
             IN  Reply(send_response(200, "OK", static_resources[i].content,
                                     static_resources[i].content_length), table)
        ELSE Reply(send_response(404, "Not Found", <<>>, 0), table)

dynamic_resource(mem, request, method, path, table) ==
    LET found == scan_slots(table, path, 0, -1)
    IN  IF strcasecmp(method, Bytes("PUT")) = 0
        THEN put_resource(mem, request, path, table, found)
        ELSE IF strcasecmp(method, Bytes("GET")) = 0
        THEN get_resource(table, found)
        ELSE IF strcasecmp(method, Bytes("DELETE")) = 0
        THEN delete_resource(table, found)
        ELSE Reply(send_response(405, "Method Not Allowed", <<>>, 0), table)

\* process_request with the test for HEAD after the static and dynamic branches.
process_request_head_last(mem, table) ==
    LET request == CStr(mem)
        line    == sscanf_request_line(request)
        method  == line.method
        path    == line.path
    IN  IF line.n # 3
        THEN Reply(send_response(400, "Bad Request", Bytes("Invalid Request Format"), 21), table)
        ELSE IF count_headers(request) > MAX_HEADERS
        THEN Reply(send_response(400, "Bad Request", Bytes("Too many headers"), 15), table)
        ELSE IF ~validate_headers(request)
        THEN Reply(send_response(400, "Bad Request", Bytes("Invalid headers"), 14), table)
        ELSE IF strncmp(path, Bytes("/static/"), 8) = 0
        THEN static_resource(method, path, table)
        ELSE IF strncmp(path, Bytes("/dynamic/"), 9) = 0
        THEN dynamic_resource(mem, request, method, path, table)
        ELSE IF strcasecmp(method, Bytes("HEAD")) = 0
        THEN Reply(send_response(501, "Not Implemented", <<>>, 0), table)
        ELSE Reply(send_response(404, "Not Found", <<>>, 0), table)

\* process_request on the char array mem (the connection buffer, with the
\* NUL handle_client wrote at the end of the frame) and the table of dynamic
\* resources: the response and the table afterwards.
process_request(mem, table) ==
    LET request == CStr(mem)
        line    == sscanf_request_line(request)
        method  == line.method
        path    == line.path
    IN  IF line.n # 3
        THEN Reply(send_response(400, "Bad Request", Bytes("Invalid Request Format"), 21), table)
        ELSE IF count_headers(request) > MAX_HEADERS
        THEN Reply(send_response(400, "Bad Request", Bytes("Too many headers"), 15), table)
        ELSE IF ~validate_headers(request)
        THEN Reply(send_response(400, "Bad Request", Bytes("Invalid headers"), 14), table)
        ELSE IF strcasecmp(method, Bytes("HEAD")) = 0
        THEN Reply(send_response(501, "Not Implemented", <<>>, 0), table)
        ELSE IF strncmp(path, Bytes("/static/"), 8) = 0
        THEN static_resource(method, path, table)
        ELSE IF strncmp(path, Bytes("/dynamic/"), 9) = 0
        THEN dynamic_resource(mem, request, method, path, table)
        ELSE Reply(send_response(404, "Not Found", <<>>, 0), table)

---------------------------------------------------------------------------
(* What peers send *)

Request(line, headers, body) ==
    Bytes(line) \o CRLF \o Bytes(headers) \o CRLF \o Bytes(body)

GetBar == Request("GET /static/bar HTTP/1.1", "", "")

GetA == Request("GET /dynamic/a HTTP/1.1", "", "")

GetB == Request("GET /dynamic/b HTTP/1.1", "", "")

DeleteA == Request("DELETE /dynamic/a HTTP/1.1", "", "")

DeleteB == Request("DELETE /dynamic/b HTTP/1.1", "", "")

PutHello == Request("PUT /dynamic/a HTTP/1.1", "Content-Length: 5\r\n", "hello")

PutHi == Request("PUT /dynamic/a HTTP/1.1", "Content-Length: 2\r\n", "hi")

PutB == Request("PUT /dynamic/b HTTP/1.1", "Content-Length: 1\r\n", "B")

PutC == Request("PUT /dynamic/c HTTP/1.1", "Content-Length: 1\r\n", "C")

PutD == Request("PUT /dynamic/d HTTP/1.1", "Content-Length: 1\r\n", "D")

\* Streams of one connection: single requests and pipelined requests.
FramingStreams ==
    { GetBar, PutHello, GetA,
      GetBar \o GetBar,
      PutHello \o GetA,
      GetA \o PutHi,
      PutHi \o PutHello \o GetA }

PutNoLength == Request("PUT /dynamic/c HTTP/1.1", "", "")

\* Streams that fill, read and empty the table of dynamic resources.
StoreStreams ==
    { PutHello, PutHi, PutB, PutC, PutD, PutNoLength, GetA, DeleteA }

GetFoo == Request("GET /static/foo HTTP/1.1", "", "")

PutFoo == Request("PUT /static/foo HTTP/1.1", "Content-Length: 1\r\n", "x")

DeleteFoo == Request("DELETE /static/foo HTTP/1.1", "", "")

GetNope == Request("GET /static/nope HTTP/1.1", "", "")

PostNope == Request("POST /static/nope HTTP/1.1", "", "")

PostA == Request("POST /dynamic/a HTTP/1.1", "", "")

HeadFoo == Request("HEAD /static/foo HTTP/1.1", "", "")

HeadA == Request("HEAD /dynamic/a HTTP/1.1", "", "")

HeadOther == Request("HEAD /other HTTP/1.1", "", "")

GetOther == Request("GET /other HTTP/1.1", "", "")

PutOther == Request("PUT /other HTTP/1.1", "Content-Length: 1\r\n", "x")

DeleteOther == Request("DELETE /other HTTP/1.1", "", "")

PostOther == Request("POST /other HTTP/1.1", "", "")

\* Requests whose first line has fewer than three words.
OneWord == Request("GET", "", "")

TwoWords == Request("PUT /dynamic/a", "", "")

TwoWordsPut == Request("PUT /dynamic/a", "Content-Length: 1\r\n", "x")

TwoWordsDelete == Request("DELETE /dynamic/a", "Host: h\r\n", "")

\* A request whose first line has a fourth word.
FourWords == Request("GET /static/foo HTTP/1.1 extra", "", "")

\* Streams of one request each, over the methods and the kinds of path.
RouteStreams ==
    { GetFoo, PutFoo, DeleteFoo, GetNope, PostNope,
      PutHello, GetA, DeleteA, PostA,
      HeadFoo, HeadA, HeadOther,
      GetOther, PutOther, DeleteOther, PostOther,
      OneWord, TwoWords, TwoWordsPut, TwoWordsDelete, FourWords }

GetFooNegative == Request("GET /static/foo HTTP/1.1", "Content-Length: -1\r\n", "")

GetFooAlpha == Request("GET /static/foo HTTP/1.1", "Content-Length: abc\r\n", "xyz")

PutNegative == Request("PUT /dynamic/a HTTP/1.1", "Content-Length: -1\r\n", "")

\* A PUT that declares more body bytes than the connection buffer can hold.
PutHuge == Request("PUT /dynamic/a HTTP/1.1", "Content-Length: 9000\r\n", "abc")

\* Requests answered with an error status, each followed by a valid request
\* on the same connection, and requests with a Content-Length that is
\* negative, not a number or too large.
ErrorStreams ==
    { PutHello, PutB, GetA,
      PutC \o GetFoo,
      GetNope \o GetFoo,
      OneWord \o GetFoo,
      PutNoLength \o GetFoo,
      HeadFoo \o GetFoo,
      PostA \o GetFoo,
      GetFooNegative, GetFooAlpha, PutNegative, PutHuge }

\* n copies of the bytes s.
Repeat(s, n) == [i \in 1..(n * Len(s)) |-> s[((i - 1) % Len(s)) + 1]]

\* n header lines "a:1".
HeaderLines(n) == Repeat(Bytes("a:1") \o CRLF, n)

\* One header line of n bytes, CRLF not counted.
LongHeader(n) == Bytes("a:") \o Repeat(<<"x">>, n - 2) \o CRLF

LengthOne == Bytes("Content-Length: 1") \o CRLF

\* Requests at the header limits and just beyond them.
Get40 == Bytes("GET /static/foo HTTP/1.1") \o CRLF \o HeaderLines(40) \o CRLF

Get41 == Bytes("GET /static/foo HTTP/1.1") \o CRLF \o HeaderLines(41) \o CRLF

Head41 == Bytes("HEAD /static/foo HTTP/1.1") \o CRLF \o HeaderLines(41) \o CRLF

Put40 ==
    Bytes("PUT /dynamic/a HTTP/1.1") \o CRLF \o LengthOne \o HeaderLines(39)
        \o CRLF \o <<"x">>

Put41 ==
    Bytes("PUT /dynamic/a HTTP/1.1") \o CRLF \o LengthOne \o HeaderLines(40)
        \o CRLF \o <<"y">>

Get256 == Bytes("GET /static/foo HTTP/1.1") \o CRLF \o LongHeader(256) \o CRLF

Put257 ==
    Bytes("PUT /dynamic/a HTTP/1.1") \o CRLF \o LengthOne \o LongHeader(257)
        \o CRLF \o <<"z">>

Delete41 ==
    Bytes("DELETE /dynamic/a HTTP/1.1") \o CRLF \o HeaderLines(41) \o CRLF

LimitStreams ==
    { Get40, Get41, Head41, Put40, Put41, Delete41, Get256, Put257 }

\* PutHi cut off before the last byte of its body.
PutHiCut == SubSeq(PutHi, 1, Len(PutHi) - 1)

\* Connections that create, read and delete a resource, and one that ends
\* with an incomplete request.
LifeStreams == { PutHello, PutB, GetA, DeleteA, PutHiCut }

\* Single requests that are answered with each of the statuses.
EffectStreams ==
    { PutHello, PutHi, PutB, PutC, PutNoLength, GetA, DeleteA, DeleteB,
      GetFoo, GetNope, PostA, HeadA, OneWord }

\* PUT /dynamic/a with a body of n bytes "x": 49 bytes of header block when n
\* has four digits.
PutWithBody(n) ==
    Bytes("PUT /dynamic/a HTTP/1.1") \o CRLF
        \o Bytes("Content-Length: ") \o DecimalString(n) \o CRLF \o CRLF
        \o Repeat(<<"x">>, n)

\* The largest request the buffer of handle_client can hold: BUFFER_SIZE - 1
\* bytes.
PutFill == PutWithBody(BUFFER_SIZE - 50)

\* A request of BUFFER_SIZE bytes, one more than the buffer can hold.
PutOver == PutWithBody(BUFFER_SIZE - 49)

\* A request that declares far more bytes than it sends.
PutVast ==
    Request("PUT /dynamic/a HTTP/1.1", "Content-Length: 2000000000\r\n", "abc")

BufferStreams ==
    { GetBar, PutHello, GetA, PutFill, PutOver, GetBar \o PutFill, PutVast }

\* The sizes in which the bytes of a long stream arrive, besides all that is
\* left of the stream and all that fits in the buffer.
SegmentSizes == {1024, 4096}

---------------------------------------------------------------------------
(* The server *)

TypeOK ==
    /\ pc \in {"accept", "recv", "frame", "exit"}
    /\ conn \in {"none", "open", "closed", "aborted"}
    /\ stream \in menu \cup {<<>>}
    /\ pos \in 0..Len(stream)
    /\ Len(buffer) <= BUFFER_SIZE - 1
    /\ DOMAIN dynamic_resources = Slots

EmptyTable == [i \in Slots |-> DynamicResource(<<>>, <<>>, FALSE, 0)]

InitWith(streams) ==
    /\ pc = "accept"
    /\ menu = streams
    /\ stream = <<>>
    /\ pos = 0
    /\ buffer = <<>>
    /\ dynamic_resources = EmptyTable
    /\ frames = <<>>
    /\ responses = <<>>
    /\ conn = "none"

Init == InitWith(FramingStreams)

\* An accept that does not wait for handle_client to return.
AcceptAnytime ==
    /\ pc \in {"accept", "recv", "frame"}
    /\ \E s \in menu : stream' = s
    /\ pos' = 0
    /\ buffer' = <<>>
    /\ frames' = <<>>
    /\ responses' = <<>>
    /\ conn' = "open"
    /\ pc' = "recv"
    /\ UNCHANGED <<menu, dynamic_resources>>

\* An accept that starts every connection on an empty store.
AcceptClearsStore ==
    /\ pc = "accept"
    /\ \E s \in menu : stream' = s
    /\ pos' = 0
    /\ buffer' = <<>>
    /\ frames' = <<>>
    /\ responses' = <<>>
    /\ conn' = "open"
    /\ pc' = "recv"
    /\ dynamic_resources' = [i \in Slots |-> DynamicResource(<<>>, <<>>, FALSE, 0)]
    /\ UNCHANGED menu

\* main: accept returns a client; handle_client starts with an empty buffer.
Accept ==
    /\ pc = "accept"
    /\ \E s \in menu : stream' = s
    /\ pos' = 0
    /\ buffer' = <<>>
    /\ frames' = <<>>
    /\ responses' = <<>>
    /\ conn' = "open"
    /\ pc' = "recv"
    /\ UNCHANGED <<menu, dynamic_resources>>

\* main: accept fails, the loop is left and the server exits.
AcceptFail ==
    /\ pc = "accept"
    /\ pc' = "exit"
    /\ UNCHANGED <<menu, stream, pos, buffer, dynamic_resources, frames, responses, conn>>

\* handle_client: recv delivers the next n bytes of the stream, at most
\* sizeof(buffer) - total_bytes - 1 of them.
Recv ==
    /\ pc = "recv"
    /\ \E n \in 1..(Len(stream) - pos) :
          /\ n <= BUFFER_SIZE - Len(buffer) - 1
          /\ buffer' = buffer \o SubSeq(stream, pos + 1, pos + n)
          /\ pos' = pos + n
    /\ pc' = "frame"
    /\ UNCHANGED <<menu, stream, dynamic_resources, frames, responses, conn>>

\* recv asked for sizeof(buffer) - total_bytes bytes: no room kept for the
\* terminator.
RecvSegmentNoRoom ==
    /\ pc = "recv"
    /\ \E n \in SegmentSizes \cup {Len(stream) - pos, BUFFER_SIZE - Len(buffer)} :
          /\ n >= 1
          /\ n <= Len(stream) - pos
          /\ n <= BUFFER_SIZE - Len(buffer)
          /\ buffer' = buffer \o SubSeq(stream, pos + 1, pos + n)
          /\ pos' = pos + n
    /\ pc' = "frame"
    /\ UNCHANGED <<menu, stream, dynamic_resources, frames, responses, conn>>

\* handle_client: Recv with the bytes arriving in segments: n is one of
\* SegmentSizes, or all that is left of the stream, or all that fits.
RecvSegment ==
    /\ pc = "recv"
    /\ \E n \in SegmentSizes \cup {Len(stream) - pos, BUFFER_SIZE - Len(buffer) - 1} :
          /\ n >= 1
          /\ n <= Len(stream) - pos
          /\ n <= BUFFER_SIZE - Len(buffer) - 1
          /\ buffer' = buffer \o SubSeq(stream, pos + 1, pos + n)
          /\ pos' = pos + n
    /\ pc' = "frame"
    /\ UNCHANGED <<menu, stream, dynamic_resources, frames, responses, conn>>

\* handle_client: recv returns 0 (the peer has sent everything and closed its
\* side, or no room is left in the buffer); handle_client returns 0 and main
\* closes the socket.
RecvEnd ==
    /\ pc = "recv"
    /\ pos = Len(stream) \/ Len(buffer) = BUFFER_SIZE - 1
    /\ conn' = "closed"
    /\ pc' = "accept"
    /\ UNCHANGED <<menu, stream, pos, buffer, dynamic_resources, frames, responses>>

\* handle_client: recv fails; handle_client returns -1.
RecvFail ==
    /\ pc = "recv"
    /\ conn' = "aborted"
    /\ pc' = "accept"
    /\ UNCHANGED <<menu, stream, pos, buffer, dynamic_resources, frames, responses>>

\* The inner loop without the test total_bytes < total_request_length.
total_request_length_no_wait(buf) ==
    LET headers_end    == strstr(CStr(buf), CRLFCRLF)
        headers_length == headers_end + 4
        cl             == get_content_length(CStr(buf))
        content_length == IF cl < 0 THEN 0 ELSE cl
    IN  IF headers_end = -1 THEN -1 ELSE headers_length + content_length

\* The inner loop of handle_client on the buffer buf: -1 when it breaks (no end
\* of headers yet, or the body is incomplete), else total_request_length.
total_request_length(buf) ==
    LET headers_end    == strstr(CStr(buf), CRLFCRLF)
        headers_length == headers_end + 4
        cl             == get_content_length(CStr(buf))
        content_length == IF cl < 0 THEN 0 ELSE cl
        total          == headers_length + content_length
    IN  IF headers_end = -1 THEN -1
        ELSE IF Len(buf) < total THEN -1
        ELSE total

\* buffer[total_request_length] = '\0'
terminate_frame(buf, total) ==
    IF total < Len(buf) THEN [buf EXCEPT ![total + 1] = NUL] ELSE buf

\* A memmove that leaves the dispatched request in the buffer.
memmove_nothing(buf, total) == buf

\* memmove(buffer, buffer + total_request_length, remaining)
memmove(buf, total) == SubSeq(buf, total + 1, Len(buf))

\* handle_client: the inner loop finds no complete request and goes back to recv.
FrameWait ==
    /\ pc = "frame"
    /\ total_request_length(buffer) = -1
    /\ pc' = "recv"
    /\ UNCHANGED <<menu, stream, pos, buffer, dynamic_resources, frames, responses, conn>>

\* handle_client: the inner loop finds a complete request, process_request
\* handles it and sends the response, and the request is removed from the
\* buffer.
Dispatch ==
    /\ pc = "frame"
    /\ total_request_length(buffer) # -1
    /\ LET total == total_request_length(buffer)
           mem   == terminate_frame(buffer, total)
           reply == process_request(mem, dynamic_resources)
       IN  /\ frames' = Append(frames, MemRead(buffer, 0, total))
           /\ responses' = Append(responses, reply.resp)
           /\ dynamic_resources' = reply.table
           /\ buffer' = memmove(mem, total)
    /\ pc' = "frame"
    /\ UNCHANGED <<menu, stream, pos, conn>>

\* A failed send that is ignored: the inner loop goes on with the buffer.
DispatchSendFailContinues ==
    /\ pc = "frame"
    /\ total_request_length(buffer) # -1
    /\ LET total == total_request_length(buffer)
           mem   == terminate_frame(buffer, total)
           reply == process_request(mem, dynamic_resources)
       IN  /\ frames' = Append(frames, MemRead(buffer, 0, total))
           /\ dynamic_resources' = reply.table
           /\ buffer' = memmove(mem, total)
    /\ pc' = "frame"
    /\ UNCHANGED <<menu, stream, pos, responses, conn>>

\* A failed send that undoes what the request did to the store.
DispatchSendFailRollsBack ==
    /\ pc = "frame"
    /\ total_request_length(buffer) # -1
    /\ LET total == total_request_length(buffer)
           mem   == terminate_frame(buffer, total)
       IN  /\ frames' = Append(frames, MemRead(buffer, 0, total))
           /\ buffer' = mem
    /\ conn' = "aborted"
    /\ pc' = "accept"
    /\ UNCHANGED <<menu, stream, pos, responses, dynamic_resources>>

\* handle_client: as Dispatch, but the send of the response fails:
\* process_request returns -1 and so does handle_client.
DispatchSendFail ==
    /\ pc = "frame"
    /\ total_request_length(buffer) # -1
    /\ LET total == total_request_length(buffer)
           mem   == terminate_frame(buffer, total)
           reply == process_request(mem, dynamic_resources)
       IN  /\ frames' = Append(frames, MemRead(buffer, 0, total))
           /\ dynamic_resources' = reply.table
           /\ buffer' = mem
    /\ conn' = "aborted"
    /\ pc' = "accept"
    /\ UNCHANGED <<menu, stream, pos, responses>>

Next ==
    \/ Accept
    \/ AcceptFail
    \/ Recv
    \/ RecvEnd
    \/ RecvFail
    \/ FrameWait
    \/ Dispatch
    \/ DispatchSendFail

Spec == Init /\ [][Next]_vars

InitStore == InitWith(StoreStreams)

StoreSpec == InitStore /\ [][Next]_vars

InitRoute == InitWith(RouteStreams)

RouteSpec == InitRoute /\ [][Next]_vars

InitError == InitWith(ErrorStreams)

ErrorSpec == InitError /\ [][Next]_vars

InitLimit == InitWith(LimitStreams)

LimitSpec == InitLimit /\ [][Next]_vars

InitLife == InitWith(LifeStreams)

LifeSpec == InitLife /\ [][Next]_vars

InitEffect == InitWith(EffectStreams)

EffectSpec == InitEffect /\ [][Next]_vars

InitBuffer == InitWith(BufferStreams)

\* The server with the bytes of a connection arriving in segments.
SegmentNext ==
    \/ Accept
    \/ AcceptFail
    \/ RecvSegment
    \/ RecvEnd
    \/ RecvFail
    \/ FrameWait
    \/ Dispatch
    \/ DispatchSendFail

BufferSpec == InitBuffer /\ [][SegmentNext]_vars

---------------------------------------------------------------------------
(* The server of src/src/webserver.c: static resources only, one recv and one
   response per connection.  It has no store: dynamic_resources stays as it
   is. *)

\* sscanf(buffer, "%15s %255s", method, path)
webserver_sscanf(s) ==
    LET m0 == SkipSpace(s, 0)
        m1 == WordEnd(s, m0, 15)
        p0 == SkipSpace(s, m1)
        p1 == WordEnd(s, p0, 255)
    IN  [n      |-> IF m1 = m0 THEN 0 ELSE IF p1 = p0 THEN 1 ELSE 2,
         method |-> SubSeq(s, m0 + 1, m1),
         path   |-> SubSeq(s, p0 + 1, p1)]

\* The response handle_client of webserver.c sends for what one recv put in
\* the buffer.
webserver_response(mem) ==
    LET line == webserver_sscanf(CStr(mem))
        hit  == {i \in 0..(STATIC_RESP_COUNT - 1) :
                    strcmp(line.path, static_resources[i].path) = 0}
    IN  IF line.n # 2
        THEN send_response(400, "Bad Request", Bytes("Bad Request"), 11)
        ELSE IF strcmp(line.method, Bytes("GET")) # 0
        THEN send_response(405, "Method Not Allowed", Bytes("Method Not Allowed"), 18)
        ELSE IF hit # {}
        THEN LET i == SetMin(hit)
             IN  send_response(200, "OK", static_resources[i].content,
                               Len(static_resources[i].content))
        ELSE send_response(404, "Not Found", Bytes("404 Not Found"), 13)

WebStreams ==
    { <<>>, GetFoo, GetBar, GetNope, PostNope, HeadFoo, OneWord, GetA, PutHello }

InitWeb == InitWith(WebStreams)

\* main: accept returns a client.
WebAccept ==
    /\ pc = "accept"
    /\ \E s \in menu : stream' = s
    /\ pos' = 0
    /\ buffer' = <<>>
    /\ frames' = <<>>
    /\ responses' = <<>>
    /\ conn' = "open"
    /\ pc' = "recv"
    /\ UNCHANGED <<menu, dynamic_resources>>

\* main: accept fails; perror is called.
WebAcceptFail ==
    /\ pc = "accept"
    /\ pc' = "accept_failed"
    /\ UNCHANGED <<menu, stream, pos, buffer, dynamic_resources, frames, responses, conn>>

\* main: continue, back to accept.
WebContinue ==
    /\ pc = "accept_failed"
    /\ pc' = "accept"
    /\ UNCHANGED <<menu, stream, pos, buffer, dynamic_resources, frames, responses, conn>>

\* handle_client: recv returns 0; handle_client returns and main closes the
\* socket.
WebRecvEnd ==
    /\ pc = "recv"
    /\ pos = Len(stream)
    /\ conn' = "closed"
    /\ pc' = "accept"
    /\ UNCHANGED <<menu, stream, pos, buffer, dynamic_resources, frames, responses>>

\* handle_client: recv fails; handle_client returns and main closes the socket.
WebRecvFail ==
    /\ pc = "recv"
    /\ conn' = "aborted"
    /\ pc' = "accept"
    /\ UNCHANGED <<menu, stream, pos, buffer, dynamic_resources, frames, responses>>

\* handle_client: recv delivers n bytes, one response is sent for them,
\* handle_client returns and main closes the socket.
WebServe ==
    /\ pc = "recv"
    /\ \E n \in 1..(Len(stream) - pos) :
          /\ n <= BUFFER_SIZE - 1
          /\ buffer' = SubSeq(stream, pos + 1, pos + n)
          /\ pos' = pos + n
          /\ frames' = Append(frames, buffer')
          /\ responses' = Append(responses, webserver_response(buffer'))
    /\ conn' = "closed"
    /\ pc' = "accept"
    /\ UNCHANGED <<menu, stream, dynamic_resources>>

\* handle_client: as WebServe, but the send fails; its result is not looked
\* at.
WebServeSendFail ==
    /\ pc = "recv"
    /\ \E n \in 1..(Len(stream) - pos) :
          /\ n <= BUFFER_SIZE - 1
          /\ buffer' = SubSeq(stream, pos + 1, pos + n)
          /\ pos' = pos + n
          /\ frames' = Append(frames, buffer')
    /\ conn' = "closed"
    /\ pc' = "accept"
    /\ UNCHANGED <<menu, stream, dynamic_resources, responses>>

WebNext ==
    \/ WebAccept
    \/ WebAcceptFail
    \/ WebContinue
    \/ WebRecvEnd
    \/ WebRecvFail
    \/ WebServe
    \/ WebServeSendFail

WebSpec == InitWeb /\ [][WebNext]_vars

---------------------------------------------------------------------------
(* Requests of a byte stream *)

\* The Content-Length a request declares in its own header block (0 for none).
DeclaredLength(headers) ==
    LET cl == get_content_length(headers) IN IF cl < 0 THEN 0 ELSE cl

\* The length of the complete request at the front of bytes: its header block
\* up to and including the first CRLFCRLF and the body its own header block
\* declares; -1 when bytes holds no complete request.
RequestLength(bytes) ==
    LET headers_end == strstr(bytes, CRLFCRLF)
        total       == headers_end + 4 + DeclaredLength(SubSeq(bytes, 1, headers_end + 4))
    IN  IF headers_end = -1 THEN -1
        ELSE IF Len(bytes) < total THEN -1
        ELSE total

\* The complete requests of bytes, in order.
RECURSIVE Requests(_)
Requests(bytes) ==
    LET n == RequestLength(bytes)
    IN  IF n = -1 THEN <<>>
        ELSE <<SubSeq(bytes, 1, n)>> \o Requests(SubSeq(bytes, n + 1, Len(bytes)))

\* One pass of the inner loop of handle_client, from the buffer buf and the
\* table as a recv left them until the loop breaks, every send succeeding: the
\* frames dispatched, the responses sent and the table afterwards.
RECURSIVE OnePass(_, _)
OnePass(buf, table) ==
    LET total == total_request_length(buf)
        mem   == terminate_frame(buf, total)
        reply == process_request(mem, table)
        rest  == OnePass(memmove(mem, total), reply.table)
    IN  IF total = -1 THEN [frames |-> <<>>, responses |-> <<>>, table |-> table]
        ELSE [frames    |-> <<MemRead(buf, 0, total)>> \o rest.frames,
              responses |-> <<reply.resp>> \o rest.responses,
              table     |-> rest.table]

\* The frames dispatched when the bytes of a whole stream arrive in one recv.
OneChunkFrames(bytes) == OnePass(bytes, EmptyTable).frames

\* recv has delivered the whole stream and the inner loop has finished with it.
Drained == pc = "recv" /\ conn = "open" /\ pos = Len(stream)

---------------------------------------------------------------------------
(* Framing: C1 - C7 *)

\* C1: however the stream is split into recv chunks, once all of it has been
\* received the frames dispatched are those dispatched when the same bytes
\* arrive in a single chunk.
C1_ChunkIndependent ==
    Drained => frames = OneChunkFrames(stream)

\* C2: when two complete body-less requests arrive in one recv, both have been
\* dispatched by the time the handler goes back to recv, and the client has
\* two responses, each the response to its request (200 "Bar" twice for two
\* GET /static/bar), in request order.
C2_PipelinedPairAnswered ==
    [][(pc = "recv" /\ pos = 0 /\ stream = GetBar \o GetBar /\ pos' = Len(stream)) =>
          LET pass == OnePass(buffer', dynamic_resources)
          IN  /\ pass.frames = <<GetBar, GetBar>>
              /\ Len(pass.responses) = 2
              /\ \A k \in 1..2 : /\ pass.responses[k].status = 200
                                 /\ pass.responses[k].content_length = 3
                                 /\ pass.responses[k].body = Bytes("Bar")]_vars

\* C3: every frame passed to process_request is one request: its header block
\* up to and including the first CRLFCRLF followed by exactly the number of
\* body bytes its own Content-Length declares (0 when it has none).
C3_FrameIsOneRequest ==
    \A k \in 1..Len(frames) : RequestLength(frames[k]) = Len(frames[k])

\* C4: a dispatch leaves in the buffer exactly the bytes that followed the
\* frame, unaltered and in order, at offset 0, and total_bytes is reduced by
\* the length of the frame.
C4_LeftoverKept ==
    [][(pc = "frame" /\ pc' = "frame" /\ Len(frames') = Len(frames) + 1) =>
          LET total == Len(frames'[Len(frames')])
          IN  /\ Len(buffer') = Len(buffer) - total
              /\ buffer' = SubSeq(buffer, total + 1, Len(buffer))]_vars

\* C5: no request is dispatched before all the body bytes its Content-Length
\* declares are in the buffer: nothing is dispatched and nothing is answered
\* while the first request of the stream is incomplete, and the first frame
\* holds that request with its whole body.
C5_NoShortDispatch ==
    LET first == Requests(stream)[1]
    IN  /\ \A k \in 1..Len(frames) :
              LET headers_end == strstr(frames[k], CRLFCRLF)
              IN  /\ headers_end # -1
                  /\ Len(frames[k]) >= headers_end + 4
                        + DeclaredLength(SubSeq(frames[k], 1, headers_end + 4))
        /\ (conn = "open" /\ Requests(stream) # <<>>) =>
              /\ pos < Len(first) => frames = <<>> /\ responses = <<>>
              /\ frames # <<>> => /\ Len(frames[1]) >= Len(first)
                                  /\ SubSeq(frames[1], 1, Len(first)) = first

\* C5 witness: Content-Length 5 with 3 body bytes received: the handler is
\* back in recv and has dispatched nothing.
C5_Witness ==
    /\ stream = PutHello /\ conn = "open" /\ pc = "recv"
    /\ pos = Len(PutHello) - 2
    /\ buffer = SubSeq(PutHello, 1, Len(PutHello) - 2)
    /\ frames = <<>>

\* C6: the handler waits in recv only when every complete request received so
\* far has been dispatched and answered.
C6_NoCompleteRequestWaits ==
    (pc = "recv" /\ conn = "open") =>
        Len(responses) = Len(Requests(SubSeq(stream, 1, pos)))

\* C7: the frames dispatched are the first requests of the stream, in order,
\* none skipped, duplicated or reordered, with one response each; once the
\* whole stream is received and the handler is back in recv, every request of
\* the stream has been dispatched.
C7_InOrderOnePerRequest ==
    conn = "open" =>
        /\ Len(frames) <= Len(Requests(stream))
        /\ frames = SubSeq(Requests(stream), 1, Len(frames))
        /\ Len(responses) = Len(frames)
        /\ Drained => Len(frames) = Len(Requests(stream))

---------------------------------------------------------------------------
(* Requests and replies, for the claims about the store *)

DynamicNames == {"a", "b", "c", "d"}

DynamicPath(x) == Bytes("/dynamic/" \o x)

\* The frame f is a request with this method for /dynamic/x.
IsRequestFor(f, method, x) ==
    LET start == Bytes(method \o " /dynamic/" \o x \o " ")
    IN  Len(f) >= Len(start) /\ SubSeq(f, 1, Len(start)) = start

\* The body a frame carries: its bytes after the header block.
BodyOf(f) == SubSeq(f, strstr(f, CRLFCRLF) + 5, Len(f))

\* What GET /dynamic/x is answered with the table as it is.
GetReply(x, table) ==
    process_request(Request("GET /dynamic/" \o x \o " HTTP/1.1", "", ""), table).resp

IsOK(resp, body) ==
    resp.status = 200 /\ resp.content_length = Len(body) /\ resp.body = body

\* The step is a pass of the inner loop that hands a frame to process_request.
IsDispatchStep == pc = "frame" /\ Len(frames') = Len(frames) + 1

StepFrame == frames'[Len(frames')]

\* The status process_request answers in a dispatch step (whether or not the
\* send then succeeds).
StepStatus ==
    process_request(terminate_frame(buffer, total_request_length(buffer)),
                    dynamic_resources).resp.status

StatusesOf(resps) == [k \in 1..Len(resps) |-> resps[k].status]

InUse(table) == {i \in Slots : table[i].in_use}

Holds(table, x) == \E i \in InUse(table) : table[i].path = DynamicPath(x)

---------------------------------------------------------------------------
(* Store: C8 - C10 *)

\* C8: a PUT to /dynamic/x answered 201 or 204 makes GET /dynamic/x return
\* 200 with exactly the body of that PUT and its length, whatever was stored
\* before; the answer to GET /dynamic/x stays the same until a later PUT or
\* DELETE of x is answered 201 or 204; and a GET that is dispatched gets that
\* answer.
C8_GetReturnsLastPut ==
    [][\A x \in DynamicNames :
          LET changes == /\ IsDispatchStep
                         /\ StepStatus \in {201, 204}
                         /\ \/ IsRequestFor(StepFrame, "PUT", x)
                            \/ IsRequestFor(StepFrame, "DELETE", x)
          IN  /\ (IsDispatchStep /\ IsRequestFor(StepFrame, "PUT", x)
                                 /\ StepStatus \in {201, 204})
                    => IsOK(GetReply(x, dynamic_resources'), BodyOf(StepFrame))
              /\ ~changes
                    => \/ dynamic_resources' = dynamic_resources
                       \/ GetReply(x, dynamic_resources') = GetReply(x, dynamic_resources)
              /\ (IsDispatchStep /\ IsRequestFor(StepFrame, "GET", x)
                                 /\ Len(responses') = Len(responses) + 1)
                    => responses'[Len(responses')] = GetReply(x, dynamic_resources)]_vars

\* C8 witness: a GET of /dynamic/a has just returned "hi", the body of an
\* earlier PUT.
C8_Witness ==
    /\ frames = <<GetA>>
    /\ Len(responses) = 1
    /\ IsOK(responses[1], Bytes("hi"))

\* C9: once DELETE /dynamic/x is answered 204, GET /dynamic/x is answered 404
\* and stays so until a PUT to x is answered 201 or 204; that PUT is answered
\* 201, and GET /dynamic/x then returns its body.
C9_DeleteThenRecreate ==
    [][\A x \in DynamicNames :
          LET put == /\ IsDispatchStep
                     /\ IsRequestFor(StepFrame, "PUT", x)
                     /\ StepStatus \in {201, 204}
          IN  /\ (IsDispatchStep /\ IsRequestFor(StepFrame, "DELETE", x)
                                 /\ StepStatus = 204)
                    => GetReply(x, dynamic_resources').status = 404
              /\ (~put /\ dynamic_resources' # dynamic_resources
                        /\ GetReply(x, dynamic_resources).status = 404)
                    => GetReply(x, dynamic_resources').status = 404
              /\ (put /\ GetReply(x, dynamic_resources).status = 404)
                    => /\ StepStatus = 201
                       /\ IsOK(GetReply(x, dynamic_resources'), BodyOf(StepFrame))]_vars

\* C9 witness: the DELETE of /dynamic/a has just been answered 204, with
\* another resource still in the store.
C9_Witness ==
    /\ frames = <<DeleteA>>
    /\ StatusesOf(responses) = <<204>>
    /\ GetReply("a", dynamic_resources).status = 404
    /\ InUse(dynamic_resources) # {}

\* C10 as claimed: with every slot in use, any PUT to a dynamic path that is
\* not in the store is answered 507 and changes no slot.
C10_FullStoreRejectsPut ==
    [][\A x \in DynamicNames :
          (/\ IsDispatchStep
           /\ IsRequestFor(StepFrame, "PUT", x)
           /\ InUse(dynamic_resources) = Slots
           /\ ~Holds(dynamic_resources, x))
             => /\ StepStatus = 507
                /\ dynamic_resources' = dynamic_resources]_vars

\* The Content-Length process_request accepts for a PUT: 0 <= n < BUFFER_SIZE.
HasValidLength(f) ==
    LET n == get_content_length(CStr(f)) IN 0 <= n /\ n < BUFFER_SIZE

\* C10, amended: with every slot in use, a PUT with a valid Content-Length to
\* a dynamic path that is not in the store is answered 507 and changes no
\* slot, so every resource in the store is still returned by GET and no more
\* than DYNAMIC_RESOURCES_COUNT slots are in use; a PUT without a valid
\* Content-Length is answered 411 and changes no slot either.
C10_FullStoreRejectsValidPut ==
    [][\A x \in DynamicNames :
          (/\ IsDispatchStep
           /\ IsRequestFor(StepFrame, "PUT", x)
           /\ InUse(dynamic_resources) = Slots
           /\ ~Holds(dynamic_resources, x))
             => /\ StepStatus = IF HasValidLength(StepFrame) THEN 507 ELSE 411
                /\ dynamic_resources' = dynamic_resources
                /\ Cardinality(InUse(dynamic_resources')) <= DYNAMIC_RESOURCES_COUNT
                /\ \A y \in DynamicNames :
                      Holds(dynamic_resources, y) =>
                          \E i \in Slots :
                              /\ dynamic_resources[i].path = DynamicPath(y)
                              /\ IsOK(GetReply(y, dynamic_resources'),
                                      MemRead(dynamic_resources[i].content, 0,
                                              dynamic_resources[i].content_length))]_vars

\* C10 witness: every slot is in use and the PUT of a further path has just
\* been answered 507.
C10_Witness ==
    /\ InUse(dynamic_resources) = Slots
    /\ \E x \in DynamicNames :
          /\ ~Holds(dynamic_resources, x)
          /\ Len(frames) = 1 /\ IsRequestFor(frames[1], "PUT", x)
          /\ Len(responses) = 1 /\ responses[1].status = 507

---------------------------------------------------------------------------
(* Store: C11 - C16 *)

\* C11: no two slots in use hold the same path, whatever PUT, GET and DELETE
\* requests have been processed.
C11_UniquePaths ==
    \A i \in InUse(dynamic_resources) : \A j \in InUse(dynamic_resources) :
        dynamic_resources[i].path = dynamic_resources[j].path => i = j

\* C11 witness: a PUT to /dynamic/b has just updated the resource in slot 1
\* although the scan passed the free slot 0 first.
C11_Witness ==
    /\ frames = <<PutB>>
    /\ StatusesOf(responses) = <<204>>
    /\ ~dynamic_resources[0].in_use
    /\ dynamic_resources[1].in_use
    /\ dynamic_resources[1].path = DynamicPath("b")

\* C12: a PUT to /dynamic/x with a valid Content-Length is answered 204 exactly
\* when a slot in use holds x, 201 exactly when none holds it and a slot is
\* free, and 507 exactly when none holds it and no slot is free.
C12_PutStatusByStore ==
    [][\A x \in DynamicNames :
          (/\ IsDispatchStep
           /\ IsRequestFor(StepFrame, "PUT", x)
           /\ HasValidLength(StepFrame))
             => LET held == Holds(dynamic_resources, x)
                    free == InUse(dynamic_resources) # Slots
                IN  /\ StepStatus = 204 <=> held
                    /\ StepStatus = 201 <=> (~held /\ free)
                    /\ StepStatus = 507 <=> (~held /\ ~free)]_vars

\* C12 witness: with every slot in use, a PUT to the path of one of them has
\* just been answered 204.
C12_Witness ==
    /\ frames = <<PutHi>>
    /\ StatusesOf(responses) = <<204>>
    /\ InUse(dynamic_resources) = Slots

\* C14: a PUT or DELETE on /dynamic/x changes at most one slot, the one that
\* holds x or, on create, one free slot, and GET /dynamic/y is answered the
\* same before and after it for every other path y.
C14_OtherPathsUntouched ==
    [][\A x \in DynamicNames :
          (/\ IsDispatchStep
           /\ \/ IsRequestFor(StepFrame, "PUT", x)
              \/ IsRequestFor(StepFrame, "DELETE", x))
             => \/ dynamic_resources' = dynamic_resources
                \/ /\ \A y \in DynamicNames \ {x} :
                          GetReply(y, dynamic_resources') = GetReply(y, dynamic_resources)
                   /\ \E i \in Slots :
                          /\ \A j \in Slots \ {i} :
                                dynamic_resources'[j] = dynamic_resources[j]
                          /\ \/ /\ dynamic_resources[i].in_use
                                /\ dynamic_resources[i].path = DynamicPath(x)
                             \/ /\ ~dynamic_resources[i].in_use
                                /\ StepStatus = 201]_vars

\* C14 witness: /dynamic/b has just been created while /dynamic/a holds
\* "hello", and GET /dynamic/a still returns "hello".
C14_Witness ==
    /\ frames = <<PutB>>
    /\ StatusesOf(responses) = <<201>>
    /\ Holds(dynamic_resources, "a")
    /\ IsOK(GetReply("a", dynamic_resources), Bytes("hello"))

\* C15: a PUT with a valid Content-Length to a path in the store changes only
\* content and content_length of the slot that holds it: path, in_use and
\* every other slot stay as they are, and the content array afterwards is the
\* new body followed by zeros, also when the new body is the shorter one.
C15_UpdateReplacesContent ==
    [][\A x \in DynamicNames :
          (/\ IsDispatchStep
           /\ IsRequestFor(StepFrame, "PUT", x)
           /\ HasValidLength(StepFrame)
           /\ Holds(dynamic_resources, x))
             => \E i \in InUse(dynamic_resources) :
                   /\ dynamic_resources[i].path = DynamicPath(x)
                   /\ dynamic_resources' =
                         [dynamic_resources EXCEPT
                             ![i].content = BodyOf(StepFrame),
                             ![i].content_length = Len(BodyOf(StepFrame))]
                   /\ IsOK(GetReply(x, dynamic_resources'), BodyOf(StepFrame))]_vars

\* C15 witness: the resource in slot 0 has just been updated to "hi".
C15_Witness ==
    /\ frames = <<PutHi>>
    /\ StatusesOf(responses) = <<204>>
    /\ dynamic_resources[0] = DynamicResource(DynamicPath("a"), Bytes("hi"), TRUE, 2)

\* C16: a DELETE of a path in the store is answered 204 and frees its slot:
\* in_use false, content zeroed, content_length 0, every other slot unchanged;
\* every free slot has zeroed content; and a create writes a free slot with
\* the new path and exactly the new body, whatever the slot held before.
C16_DeleteFreesSlot ==
    [][\A x \in DynamicNames :
          /\ (/\ IsDispatchStep
              /\ IsRequestFor(StepFrame, "DELETE", x)
              /\ Holds(dynamic_resources, x))
                => /\ StepStatus = 204
                   /\ \E i \in InUse(dynamic_resources) :
                         /\ dynamic_resources[i].path = DynamicPath(x)
                         /\ dynamic_resources' =
                               [dynamic_resources EXCEPT ![i].in_use = FALSE,
                                                         ![i].content = <<>>,
                                                         ![i].content_length = 0]
                   /\ \A j \in Slots \ InUse(dynamic_resources') :
                         /\ dynamic_resources'[j].content = <<>>
                         /\ dynamic_resources'[j].content_length = 0
          /\ (/\ IsDispatchStep
              /\ IsRequestFor(StepFrame, "PUT", x)
              /\ StepStatus = 201)
                => /\ \E i \in Slots \ InUse(dynamic_resources) :
                         dynamic_resources' =
                             [dynamic_resources EXCEPT ![i] =
                                 DynamicResource(DynamicPath(x), BodyOf(StepFrame),
                                                 TRUE, Len(BodyOf(StepFrame)))]
                   /\ IsOK(GetReply(x, dynamic_resources'), BodyOf(StepFrame))]_vars

\* C16 witness: slot 0, freed by the DELETE of /dynamic/a while slot 1 stayed
\* in use, has just been taken by the create of /dynamic/c.
C16_Witness ==
    /\ frames = <<PutC>>
    /\ StatusesOf(responses) = <<201>>
    /\ dynamic_resources[0] = DynamicResource(DynamicPath("c"), Bytes("C"), TRUE, 1)
    /\ dynamic_resources[1].in_use

---------------------------------------------------------------------------
(* The request line of a frame, for the claims about routing *)

\* The first line of a frame, without its CRLF.
RequestLine(f) ==
    LET e == strstr(f, CRLF) IN IF e = -1 THEN f ELSE SubSeq(f, 1, e)

\* The words of a line, separated by white space.
RECURSIVE Tokens(_)
Tokens(s) ==
    LET a == SkipSpace(s, 0)
        b == WordEnd(s, a, Len(s))
    IN  IF a >= Len(s) THEN <<>>
        ELSE <<SubSeq(s, a + 1, b)>> \o Tokens(SubSeq(s, b + 1, Len(s)))

\* The request line is a method, a path and a version.
LineParses(f) == Len(Tokens(RequestLine(f))) = 3

MethodOf(f) == Tokens(RequestLine(f))[1]

PathOf(f) == Tokens(RequestLine(f))[2]

\* Methods are compared without regard to case, as process_request does.
IsMethod(f, m) == Lower(MethodOf(f)) = Lower(Bytes(m))

HasPrefix(s, prefix) ==
    Len(s) >= Len(prefix) /\ SubSeq(s, 1, Len(prefix)) = Bytes(prefix)

HeadersWithinLimits(f) ==
    count_headers(CStr(f)) <= MAX_HEADERS /\ validate_headers(CStr(f))

\* The frame is a request that process_request routes: its line parses and
\* its header block is within the limits.
Routed(f) == LineParses(f) /\ HeadersWithinLimits(f)

\* The response process_request gives in a dispatch step.
StepResponse ==
    process_request(terminate_frame(buffer, total_request_length(buffer)),
                    dynamic_resources).resp

StaticPaths == {static_resources[i].path : i \in 0..(STATIC_RESP_COUNT - 1)}

---------------------------------------------------------------------------
(* Routing: C13, C17 - C20 *)

\* C13: in every reachable state GET /static/foo is answered 200 with
\* Content-Length 3 and body "Foo" and leaves the store as it is, and every
\* GET /static/foo answered on the connection got that response.
C13_StaticFooConstant ==
    /\ LET reply == process_request(GetFoo, dynamic_resources)
       IN  /\ IsOK(reply.resp, Bytes("Foo"))
           /\ reply.table = dynamic_resources
    /\ \A k \in 1..Len(responses) :
          frames[k] = GetFoo => IsOK(responses[k], Bytes("Foo"))

\* C13 witness: GET /static/foo has just returned "Foo" with a resource in
\* the dynamic store.
C13_Witness ==
    /\ frames = <<GetFoo>>
    /\ Len(responses) = 1
    /\ IsOK(responses[1], Bytes("Foo"))
    /\ InUse(dynamic_resources) # {}

\* C17: a request whose line parses, whose header block is within the limits
\* and whose method is HEAD is answered 501 with no body, whatever its path,
\* and the store is unchanged.
C17_HeadIs501 ==
    [][(IsDispatchStep /\ Routed(StepFrame) /\ IsMethod(StepFrame, "HEAD"))
          => /\ StepStatus = 501
             /\ StepResponse.content_length = 0
             /\ dynamic_resources' = dynamic_resources]_vars

\* C17 witness: HEAD /dynamic/a has just been answered 501 with /dynamic/a
\* in the store.
C17_Witness ==
    /\ frames = <<HeadA>>
    /\ StatusesOf(responses) = <<501>>
    /\ Holds(dynamic_resources, "a")

\* C18: a routed request that is not HEAD is answered 405, the store
\* unchanged, when its path is under /static/ and its method is not GET, and
\* when its path is under /dynamic/ and its method is none of GET, PUT and
\* DELETE.
C18_DisallowedMethodIs405 ==
    [][(IsDispatchStep /\ Routed(StepFrame) /\ ~IsMethod(StepFrame, "HEAD"))
          => LET static  == HasPrefix(PathOf(StepFrame), "/static/")
                 dynamic == HasPrefix(PathOf(StepFrame), "/dynamic/")
             IN  /\ (static /\ ~IsMethod(StepFrame, "GET"))
                       => /\ StepStatus = 405
                          /\ dynamic_resources' = dynamic_resources
                 /\ (dynamic /\ ~IsMethod(StepFrame, "GET")
                             /\ ~IsMethod(StepFrame, "PUT")
                             /\ ~IsMethod(StepFrame, "DELETE"))
                       => /\ StepStatus = 405
                          /\ dynamic_resources' = dynamic_resources]_vars

\* C18 witness: POST to a static path that does not exist has just been
\* answered 405, with a resource in the dynamic store.
C18_Witness ==
    /\ frames = <<PostNope>>
    /\ StatusesOf(responses) = <<405>>
    /\ InUse(dynamic_resources) # {}

\* C19: a routed request that is not HEAD and whose path is under neither
\* /static/ nor /dynamic/ is answered 404 whatever its method, with the
\* response it would get with an empty store and the store unchanged; GET and
\* DELETE of a /dynamic/ path not in the store and GET of a /static/ path not
\* in the static table are answered 404 too.
C19_UnknownIs404 ==
    [][(IsDispatchStep /\ Routed(StepFrame) /\ ~IsMethod(StepFrame, "HEAD"))
          => LET path    == PathOf(StepFrame)
                 static  == HasPrefix(path, "/static/")
                 dynamic == HasPrefix(path, "/dynamic/")
             IN  /\ (~static /\ ~dynamic)
                       => /\ StepStatus = 404
                          /\ StepResponse = process_request(StepFrame, EmptyTable).resp
                          /\ dynamic_resources' = dynamic_resources
                 /\ \A x \in DynamicNames :
                       (/\ path = DynamicPath(x)
                        /\ IsMethod(StepFrame, "GET") \/ IsMethod(StepFrame, "DELETE")
                        /\ ~Holds(dynamic_resources, x))
                          => /\ StepStatus = 404
                             /\ dynamic_resources' = dynamic_resources
                 /\ (static /\ IsMethod(StepFrame, "GET") /\ path \notin StaticPaths)
                       => /\ StepStatus = 404
                          /\ dynamic_resources' = dynamic_resources]_vars

\* C19 witness: PUT /other, with a body, has just been answered 404 with a
\* resource in the dynamic store.
C19_Witness ==
    /\ frames = <<PutOther>>
    /\ StatusesOf(responses) = <<404>>
    /\ InUse(dynamic_resources) # {}

\* C20: a request whose request line has fewer than three words is answered
\* 400 and the store is the same before and after.
C20_BadRequestLineIs400 ==
    [][(IsDispatchStep /\ Len(Tokens(RequestLine(StepFrame))) < 3)
          => /\ StepStatus = 400
             /\ dynamic_resources' = dynamic_resources]_vars

---------------------------------------------------------------------------
(* Request line and responses: C21 - C23 *)

\* C21: a request whose first line does not consist of exactly three words
\* is answered 400, whatever follows the line.
C21_ThreeWordsOrRejected ==
    [][(IsDispatchStep /\ Len(Tokens(RequestLine(StepFrame))) # 3)
          => StepStatus = 400]_vars

\* C22: the Content-Length of every response is the length of the body the
\* responding branch handed to send_response (0 for no body).
C22_LengthIsBodyLength ==
    \A k \in 1..Len(responses) :
        responses[k].content_length = Len(responses[k].supplied)

\* The bytes sent on the connection for a sequence of responses.
RECURSIVE WireOf(_)
WireOf(resps) ==
    IF resps = <<>> THEN <<>>
    ELSE Wire(resps[1]) \o WireOf(SubSeq(resps, 2, Len(resps)))

\* What a client makes of the bytes it received: each response is a header
\* block up to the blank line and as many body bytes as its Content-Length
\* says.  Bytes that cannot be delimited come out as a last entry with no
\* header block.
RECURSIVE Delimit(_)
Delimit(bytes) ==
    LET he   == strstr(bytes, CRLFCRLF)
        head == SubSeq(bytes, 1, he + 4)
        n    == get_content_length(head)
    IN  IF bytes = <<>> THEN <<>>
        ELSE IF he = -1 \/ n < 0 \/ Len(bytes) < he + 4 + n
        THEN <<[head |-> <<>>, body |-> bytes]>>
        ELSE <<[head |-> head, body |-> SubSeq(bytes, he + 5, he + 4 + n)]>>
                \o Delimit(SubSeq(bytes, he + 4 + n + 1, Len(bytes)))

\* The lines of a header block, without their CRLF.
RECURSIVE Lines(_)
Lines(s) ==
    LET e == strstr(s, CRLF)
    IN  IF e = -1 THEN IF s = <<>> THEN <<>> ELSE <<s>>
        ELSE <<SubSeq(s, 1, e)>> \o Lines(SubSeq(s, e + 3, Len(s)))

\* C23: every response sent carries exactly as many body bytes as its
\* Content-Length announces, and the bytes sent on the connection split, by
\* blank line and Content-Length, into exactly the responses sent, each a
\* status line, a Content-Length header, a Connection header and a blank line
\* followed by its body.
C23_ResponsesWellFormed ==
    /\ \A k \in 1..Len(responses) :
          Len(responses[k].body) = responses[k].content_length
    /\ responses # <<>> =>
          LET got == Delimit(WireOf(responses))
          IN  /\ Len(got) = Len(responses)
              /\ \A k \in 1..Len(got) :
                    /\ got[k].body = responses[k].body
                    /\ Lines(got[k].head) =
                          << Bytes("HTTP/1.1 ") \o DecimalString(responses[k].status)
                                 \o Bytes(" ") \o Bytes(responses[k].status_text),
                             Bytes("Content-Length: ")
                                 \o DecimalString(Len(responses[k].body)),
                             Bytes("Connection: close"),
                             <<>> >>

\* C23 witness: a 400 response, whose body text is cut to the announced 21
\* bytes, has been followed on the same connection by a 200 response.
C23_Witness ==
    /\ StatusesOf(responses) = <<400, 200>>
    /\ responses[1].content_length = 21
    /\ responses[2].body = Bytes("Foo")

---------------------------------------------------------------------------
(* Errors: C24 - C28 *)

ErrorStatuses == {400, 404, 405, 411, 501, 507}

\* C24: when a request answered with an error status is followed on the
\* connection by GET /static/foo, then once the whole stream is received the
\* connection is still open and the GET has been dispatched and answered 200
\* "Foo", as it is on its own.
C24_ContinuesAfterError ==
    (/\ Drained
     /\ Len(Requests(stream)) = 2
     /\ Requests(stream)[2] = GetFoo
     /\ responses # <<>>
     /\ responses[1].status \in ErrorStatuses)
       => /\ Len(responses) = 2
          /\ IsOK(responses[2], Bytes("Foo"))

HasInvalidLength(f) ==
    /\ strcasestr(CStr(f), ContentLengthName) # -1
    /\ get_content_length(CStr(f)) < 0

\* C26: a request whose Content-Length is negative or not a number is
\* answered with an error status, whatever its method.
C26_InvalidLengthIsError ==
    [][(IsDispatchStep /\ HasInvalidLength(StepFrame))
          => StepStatus \in ErrorStatuses]_vars

\* C27: the handler never waits in recv, and never closes the connection,
\* without having sent a response when the buffer holds the header block of a
\* request whose headers and declared Content-Length exceed BUFFER_SIZE - 1.
C27_OversizedIsRejected ==
    LET headers_end == strstr(CStr(buffer), CRLFCRLF)
        declared    == get_content_length(CStr(buffer))
    IN  (/\ conn \in {"open", "closed"}
         /\ pc \in {"recv", "accept"}
         /\ headers_end # -1
         /\ headers_end + 4 + declared > BUFFER_SIZE - 1)
           => responses # <<>>

---------------------------------------------------------------------------
(* Header limits, send failure, one connection at a time: C28 - C30 *)

\* The header lines of a frame, without their CRLF: the lines between the
\* request line and the blank line.
HeaderLinesOf(f) ==
    LET e == strstr(f, CRLFCRLF)
    IN  IF e = -1 THEN <<>> ELSE Tail(Lines(SubSeq(f, 1, e)))

OverLimits(f) ==
    LET hs == HeaderLinesOf(f)
    IN  \/ Len(hs) > MAX_HEADERS
        \/ \E i \in 1..Len(hs) : Len(hs[i]) > MAX_HEADER_LENGTH

\* C28: a framed request whose request line parses is answered 400 exactly
\* when its header block has more than MAX_HEADERS header lines or a header
\* line longer than MAX_HEADER_LENGTH bytes, whatever its method, and a
\* request rejected so leaves the store unchanged.
C28_HeaderLimits ==
    [][(IsDispatchStep /\ LineParses(StepFrame))
          => /\ StepStatus = 400 <=> OverLimits(StepFrame)
             /\ OverLimits(StepFrame)
                   => dynamic_resources' = dynamic_resources]_vars

\* A PUT with 41 header lines has been answered 400 on a store that holds
\* what a PUT with exactly 40 header lines stored.
C28_Witness ==
    /\ frames = <<Put41>>
    /\ StatusesOf(responses) = <<400>>
    /\ \E i \in InUse(dynamic_resources) :
          /\ dynamic_resources[i].path = DynamicPath("a")
          /\ dynamic_resources[i].content_length = 1
          /\ MemRead(dynamic_resources[i].content, 0, 1) = Bytes("x")

\* C29: a dispatch whose response could not be sent ends handle_client with
\* the connection aborted and the server back at accept; on an aborted
\* connection nothing more is dispatched or sent: the next step is the accept
\* of a new connection, which starts with an empty buffer, or the exit.
C29_SendFailureAborts ==
    [][/\ (IsDispatchStep /\ responses' = responses)
            => (conn' = "aborted" /\ pc' = "accept")
       /\ conn = "aborted"
            => /\ pc = "accept"
               /\ \/ /\ pc' = "recv"
                     /\ conn' = "open"
                     /\ buffer' = <<>> /\ frames' = <<>> /\ responses' = <<>>
                  \/ /\ pc' = "exit"
                     /\ frames' = frames /\ responses' = responses
                     /\ dynamic_resources' = dynamic_resources]_vars

\* The send of the first response failed while a second request was in the
\* buffer: the connection is aborted with that request not dispatched.
C29_Witness ==
    /\ stream = GetBar \o GetBar
    /\ conn = "aborted"
    /\ pc = "accept"
    /\ frames = <<GetBar>>
    /\ responses = <<>>
    /\ Len(buffer) = 2 * Len(GetBar)

\* C30: a connection is open exactly while handle_client runs; handle_client
\* starts on a new connection only from accept, with the previous connection
\* closed or aborted; and the store changes only in the dispatch of a request
\* of the open connection, lookup and change in one step.
C30_OneConnectionAtATime ==
    [][/\ (conn = "open") <=> (pc \in {"recv", "frame"})
       /\ (pc' = "recv" /\ pos' = 0) => (pc = "accept" /\ conn # "open")
       /\ dynamic_resources' = dynamic_resources
            \/ /\ conn = "open"
               /\ IsDispatchStep
               /\ stream' = stream
               /\ dynamic_resources' =
                     process_request(StepFrame, dynamic_resources).table]_vars

\* A connection has just been accepted on a store filled by two earlier
\* connections.
C30_Witness ==
    /\ pc = "recv"
    /\ conn = "open"
    /\ pos = 0
    /\ frames = <<>>
    /\ InUse(dynamic_resources) = Slots

---------------------------------------------------------------------------
(* The store across connections and failures: C31 - C35 *)

\* C31: no step other than the dispatch of a request changes a slot (not
\* the accept of a connection, not its close or abort, with or without an
\* incomplete request in the buffer), and a GET of a stored path, on
\* whatever connection, is answered 200 with the stored bytes.
C31_StoreOutlivesConnections ==
    [][/\ ~IsDispatchStep => dynamic_resources' = dynamic_resources
       /\ \A x \in DynamicNames : \A i \in InUse(dynamic_resources) :
             (/\ IsDispatchStep
              /\ IsRequestFor(StepFrame, "GET", x)
              /\ dynamic_resources[i].path = DynamicPath(x))
                => IsOK(StepResponse,
                        MemRead(dynamic_resources[i].content, 0,
                                dynamic_resources[i].content_length))]_vars

\* A connection that sent only GET /dynamic/a has been answered with the
\* bytes stored on an earlier connection.
C31_Witness ==
    /\ stream = GetA
    /\ conn = "closed"
    /\ frames = <<GetA>>
    /\ Len(responses) = 1
    /\ IsOK(responses[1], Bytes("hello"))

\* A connection has closed with an incomplete PUT of /dynamic/a in its
\* buffer, and the resource is as an earlier connection stored it.
C31_CutLeavesStore ==
    /\ stream = PutHiCut
    /\ conn = "closed"
    /\ buffer = PutHiCut
    /\ IsOK(GetReply("a", dynamic_resources), Bytes("hello"))

\* C32: a failed accept ends the server: from accept the server goes either
\* into handle_client or, on failure, towards the exit; once accept has failed
\* it accepts nothing more and stops; and a connection that is aborted
\* leaves the server at accept.
C32_AcceptFailureExits ==
    [][/\ (pc = "accept" /\ pc' # "recv") => pc' \in {"accept_failed", "exit"}
       /\ pc = "accept_failed" => pc' = "exit"
       /\ pc # "exit"
       /\ (conn = "open" /\ conn' = "aborted") => pc' = "accept"]_vars

\* C33: a PUT answered 201 writes the new resource to the free slot of
\* lowest index and to no other slot, and a PUT answered 204 writes to no
\* free slot, whatever free slots lie below the slot that holds the path.
C33_CreateTakesLowestFree ==
    [][\A x \in DynamicNames :
          (IsDispatchStep /\ IsRequestFor(StepFrame, "PUT", x))
             => LET free == Slots \ InUse(dynamic_resources)
                IN  /\ StepStatus = 201
                         => /\ free # {}
                            /\ \A i \in free : \A j \in Slots :
                                  (\A k \in free : i <= k)
                                     => IF j = i
                                        THEN /\ dynamic_resources'[j].in_use
                                             /\ dynamic_resources'[j].path = DynamicPath(x)
                                        ELSE dynamic_resources'[j] = dynamic_resources[j]
                    /\ StepStatus = 204
                         => \A j \in free :
                               dynamic_resources'[j] = dynamic_resources[j]]_vars

\* On the empty store, where every slot is free, the create of /dynamic/b
\* has just taken slot 0.
C33_Witness ==
    /\ frames = <<PutB>>
    /\ StatusesOf(responses) = <<201>>
    /\ InUse(dynamic_resources) = {0}
    /\ dynamic_resources[0].path = DynamicPath("b")

\* A PUT of /dynamic/b, held in slot 1, has just been answered 204 with the
\* free slot 0 below it left free.
C33_UpdateAboveFree ==
    /\ frames = <<PutB>>
    /\ StatusesOf(responses) = <<204>>
    /\ InUse(dynamic_resources) = {1}

\* C34: the dispatch of a request answered with a status other than 201 and
\* 204 leaves every slot as it was; the number of slots in use grows, by
\* one, exactly in a dispatch answered 201, and shrinks, by one, exactly in
\* the dispatch of a DELETE answered 204.
C34_StoreChangesOnlyOnSuccess ==
    [][IsDispatchStep
          => LET before == Cardinality(InUse(dynamic_resources))
                 after  == Cardinality(InUse(dynamic_resources'))
                 deleted == IsMethod(StepFrame, "DELETE") /\ StepStatus = 204
             IN  /\ StepStatus \notin {201, 204}
                      => dynamic_resources' = dynamic_resources
                 /\ StepStatus = 201 => after = before + 1
                 /\ after > before => StepStatus = 201
                 /\ deleted => after = before - 1
                 /\ after < before => deleted]_vars

\* A POST to /dynamic/a has just been answered 405 on a full store that
\* holds /dynamic/a.
C34_Witness ==
    /\ frames = <<PostA>>
    /\ StatusesOf(responses) = <<405>>
    /\ Holds(dynamic_resources, "a")
    /\ InUse(dynamic_resources) = Slots

\* C35: when the send of a 201 or 204 response fails the connection is
\* aborted and the store is as the request left it: after a PUT of x, GET x
\* returns the body of the PUT; after a DELETE of x, GET x is answered 404.
C35_FailedSendKeepsChange ==
    [][\A x \in DynamicNames :
          (/\ IsDispatchStep
           /\ responses' = responses
           /\ StepStatus \in {201, 204})
             => /\ conn' = "aborted"
                /\ IsRequestFor(StepFrame, "PUT", x)
                     => IsOK(GetReply(x, dynamic_resources'), BodyOf(StepFrame))
                /\ IsRequestFor(StepFrame, "DELETE", x)
                     => GetReply(x, dynamic_resources').status = 404]_vars

\* The response to a PUT that replaced "hello" by "hi" could not be sent:
\* the connection is aborted, no response is out, and GET returns "hi".
C35_Witness ==
    /\ stream = PutHi
    /\ conn = "aborted"
    /\ frames = <<PutHi>>
    /\ responses = <<>>
    /\ IsOK(GetReply("a", dynamic_resources), Bytes("hi"))
    /\ InUse(dynamic_resources) = Slots

---------------------------------------------------------------------------
(* The buffer and the inner loop of handle_client: C36 - C37 *)

\* C36: total_bytes stays within 0..BUFFER_SIZE - 1; a recv adds at most
\* BUFFER_SIZE - 1 - total_bytes bytes; and a dispatched frame is no longer
\* than total_bytes, so the terminator is written at an index of at most
\* BUFFER_SIZE - 1 and the memmove moves total_bytes - total_request_length
\* bytes from inside the buffer.
C36_BufferBounds ==
    [][/\ Len(buffer) <= BUFFER_SIZE - 1
       /\ Len(buffer') <= BUFFER_SIZE - 1
       /\ (pc = "recv" /\ pc' = "frame")
            => /\ pos' - pos <= BUFFER_SIZE - 1 - Len(buffer)
               /\ Len(buffer') = Len(buffer) + (pos' - pos)
       /\ IsDispatchStep
            => /\ Len(StepFrame) = total_request_length(buffer)
               /\ Len(StepFrame) <= Len(buffer)
               /\ Len(buffer') \in {Len(buffer), Len(buffer) - Len(StepFrame)}]_vars

\* A request of BUFFER_SIZE - 1 bytes has filled the buffer and has been
\* dispatched and answered 201.
C36_Witness ==
    /\ frames = <<PutFill>>
    /\ Len(frames[1]) = BUFFER_SIZE - 1
    /\ StatusesOf(responses) = <<201>>
    /\ buffer = <<>>

\* The buffer is full with bytes of the stream still to come.
C36_BufferFull ==
    /\ Len(buffer) = BUFFER_SIZE - 1
    /\ pos < Len(stream)
    /\ pc = "recv"

\* C37: every pass of the inner loop either leaves the loop, to recv with
\* the buffer as it is or out of the handler on a failed send, or dispatches
\* a frame of at least 4 bytes and stays in the loop with total_bytes
\* smaller by the length of the frame.  total_bytes is a natural number, so
\* the passes between two recv are finitely many.
C37_InnerLoopTerminates ==
    [][pc = "frame"
          => \/ /\ pc' = "recv"
                /\ buffer' = buffer
                /\ frames' = frames
             \/ /\ IsDispatchStep
                /\ Len(StepFrame) >= 4
                /\ \/ /\ pc' = "accept"
                      /\ conn' = "aborted"
                   \/ /\ pc' = "frame"
                      /\ Len(buffer') = Len(buffer) - Len(StepFrame)
                      /\ Len(buffer') < Len(buffer)]_vars

\* The inner loop has dispatched two requests of one connection, each
\* after a recv of its own, and is back at recv.
C37_Witness ==
    /\ pc = "recv"
    /\ frames = <<PutHello, GetA>>
    /\ Len(responses) = 2
    /\ buffer = <<>>

====
